---- MODULE Spec2Model ----
(***************************************************************************)
(* gqgmcmqtt: a bridge from a GQ GMC geiger counter to an MQTT broker.     *)
(*                                                                         *)
(* The model follows src/main.rs (start-up, channel wiring, the poll loop  *)
(* and die) and src/payload.rs (generate_payloads).  The MQTT session task *)
(* (mqtt_poll_loop, MqttConnection) is not part of the sources at hand; it *)
(* is modelled from the specification, sections 4.2 and 5.                 *)
(***************************************************************************)
EXTENDS Integers, Sequences, FiniteSets, TLC

VARIABLES
    pc,            \* position of the main task (the orchestrator)
    exitStatus,    \* <<>> while the process runs, <<code>> once it has ended
    stdout,        \* lines printed to standard output
    stderr,        \* lines printed to standard error
    conn,          \* MqttConnection: "none", "up" or "down"
    sess,          \* session task: "unspawned", "spawned", "running", "blocked", "exited"
    gmc,           \* instrument handle: "closed" or "open"
    reading,       \* history: what the driver answered in the current poll cycle
    payloads,      \* the Vec<CompoundPayload> of the current poll cycle
    cycles,        \* number of poll cycles started
    queries,       \* number of driver queries issued
    chan,          \* the outbound channel mqtt_tx -> mqtt_rx
    sent,          \* history: every completed send, <<cycle, message>>
    sendAttempts,  \* history: number of sends attempted (completed or failed)
    taken,         \* history: messages the session task dequeued
    published,     \* history: messages the broker received
    lost,          \* history: messages freed with the channel's buffer
    bcast,         \* the broadcast control channel: messages ever sent on it
    sessRxPos,     \* the session receiver's position in bcast
    outages,       \* number of transport disconnects so far
    sentInOutage,  \* history: a send completed while the transport was down
    inbound,       \* the inbound channel from_mqtt_tx -> from_mqtt_rx
    arrived,       \* history: messages the broker delivered to the session task
    pendingIn,     \* the inbound message the session task waits to hand over
    clock,         \* wall-clock time, in seconds since the start of main
    cycleBegan,    \* time at which the current loop iteration began
    cycleDone,     \* time at which the sends of the current iteration were done
    yielded,       \* history: number of poll cycles that produced a payload
    endedAt,       \* history: <<number of cycles started>> when the session task ended
    failed         \* history: number of publish calls that failed

vars == <<pc, exitStatus, stdout, stderr, conn, sess, gmc, reading, payloads,
          cycles, queries, chan, sent, sendAttempts, taken, published, lost,
          bcast, sessRxPos, outages, sentInOutage, inbound, arrived, pendingIn,
          clock, cycleBegan, cycleDone, yielded, endedAt, failed>>

inVars == <<inbound, arrived, pendingIn>>

timeVars == <<clock, cycleBegan, cycleDone>>

-----------------------------------------------------------------------------
(* Bounds of the model. *)

\* poll cycles explored when the driver's answers vary from cycle to cycle
MaxCycles == 2

\* poll cycles explored when the instrument keeps answering the same reading
FloodCycles == 51

\* poll cycles explored when only the payloads are looked at
BuilderCycles == 2

\* transport disconnects explored
MaxOutages == 1

\* poll cycles explored when the broker delivers inbound messages
InboundCycles == 1

\* inbound messages the broker delivers: as many as the inbound channel holds
\* and one for the session task to wait with
InboundMessages == 101

\* seconds a loop iteration is followed for before its sleep
MaxCycleTime == 7

-----------------------------------------------------------------------------
(* Program constants. *)

MPSC_BUFFER_SIZE == 100

\* seconds
POLL_TIME == 5

\* the exit status die passes to process::exit
DieStatus == 1

\* the exit status of a Rust process whose main thread panicked
PanicStatus == 101

-----------------------------------------------------------------------------
(* Driver answers: Result<String> and Result<u32>. *)

Ok(v) == [ok |-> TRUE, v |-> v]

Err == [ok |-> FALSE, err |-> "driver error"]

NotAsked == [ok |-> FALSE, err |-> "not queried"]

Versions(models) == {Err} \cup {Ok(m) : m \in models}

SerialNumbers(serials) == {Err} \cup {Ok(s) : s \in serials}

Cpms(counts) == {Err} \cup {Ok(c) : c \in counts}

\* every answer the instrument can give to the three queries of one cycle
Answers(models, serials, counts) ==
    [version : Versions(models), serial : SerialNumbers(serials), cpm : Cpms(counts)]

\* the answers explored in the runs of the whole pipeline
Readings == Answers({"GMC-500"}, {"12345", "67890"}, {0, 42})

\* the answers explored in the runs that look at the payloads alone
BuilderReadings ==
    Answers({"GMC-500", "GMC-320", "GMC-600+"}, {"12345", "67890", "F4880A"},
            {0, 1, 7, 42})

\* the answers of an instrument that keeps reporting the same live reading
FloodReadings == {[version |-> Ok("GMC-500"), serial |-> Ok("12345"), cpm |-> Ok(42)]}

NoReading == [version |-> NotAsked, serial |-> NotAsked, cpm |-> NotAsked]

\* the queries generate_payloads gets to before it returns
QueriesMade(r) ==
    IF ~r.version.ok THEN 1
    ELSE IF ~r.serial.ok THEN 2
    ELSE 3

\* the answers generate_payloads gets to see
Observed(r) ==
    IF ~r.version.ok THEN [NoReading EXCEPT !.version = r.version]
    ELSE IF ~r.serial.ok THEN [NoReading EXCEPT !.version = r.version, !.serial = r.serial]
    ELSE r

-----------------------------------------------------------------------------
(* payload.rs: the payload types.  Option<T> is <<>> (None) or <<x>>. *)

None == <<>>

Some(x) == <<x>>

DeviceInfoDefault ==
    [identifiers |-> <<>>, manufacturer |-> "", name |-> "", model |-> "",
     sw_version |-> ""]

HAConfigPayloadDefault ==
    [name |-> "", device |-> DeviceInfoDefault, unique_id |-> "", entity_id |-> "",
     state_topic |-> "", expires_after |-> 0,
     entity_category |-> None, command_topic |-> None, payload_on |-> None,
     payload_off |-> None, state_class |-> None, device_class |-> None,
     native_uom |-> None, options |-> None, value_template |-> None,
     suggested_display_precision |-> None, assumed_state |-> None,
     attribution |-> None, available |-> None, entity_picture |-> None,
     extra_state_attributes |-> None, has_entity_name |-> None,
     should_poll |-> None, translation_key |-> None, payload_press |-> None,
     min |-> None, max |-> None, mode |-> None, step |-> None, icon |-> None]

\* StatePayload::default(); last_seen is Utc::now()
StatePayloadDefault(now) ==
    [value |-> [tag |-> "None"], last_seen |-> now, description |-> None,
     label |-> None, notes |-> None]

IntValue_None(cpm) == [tag |-> "None"]

\* PayloadValueType::Int(cpm as i64): a u32 always fits an i64
IntValue(cpm) == [tag |-> "Int", v |-> cpm]

NoReadingAvailable_Never(cpm) == FALSE

\* a count of exactly zero is taken as "no reading available"
NoReadingAvailable(cpm) == cpm = 0

\* format!("homeassistant/sensor/{serial}/geiger_counter_cpm/config")
ConfigTopic(serial) == "homeassistant/sensor/" \o serial \o "/geiger_counter_cpm/config"

StateTopic_NoSerial(serial) == "gqgmcmqtt/geiger_counter_cpm"

\* format!("gqgmcmqtt/{serial}/geiger_counter_cpm")
StateTopic(serial) == "gqgmcmqtt/" \o serial \o "/geiger_counter_cpm"

\* generate_payloads: the driver's answers r, read at time now
generate_payloads(r, now) ==
    IF ~r.version.ok THEN <<>>
    ELSE IF ~r.serial.ok THEN <<>>
    ELSE IF ~r.cpm.ok THEN <<>>
    ELSE IF NoReadingAvailable(r.cpm.v) THEN <<>>
    ELSE
        LET model == r.version.v
            serial == r.serial.v
            cpm == r.cpm.v
            device_info ==
                [identifiers |-> <<serial>>, manufacturer |-> "GQ Electronics",
                 name |-> "GQ Geiger Counter", model |-> model, sw_version |-> ""]
            unit_name == model \o "-" \o serial
            config_topic == ConfigTopic(serial)
            state_topic == StateTopic(serial)
            config_payload ==
                [HAConfigPayloadDefault EXCEPT
                    !.state_topic = state_topic,
                    !.name = unit_name,
                    !.device_class = None,
                    !.state_class = Some("measurement"),
                    !.expires_after = 300,
                    !.value_template = Some("{{ value_json.value }}"),
                    !.unique_id = unit_name,
                    !.entity_id = "sensor." \o serial \o "_geiger_tube_cpm",
                    !.suggested_display_precision = Some(0),
                    !.native_uom = Some("cpm"),
                    !.device = device_info,
                    !.icon = Some("mdi:radioactive")]
            state_payload ==
                [StatePayloadDefault(now) EXCEPT !.value = IntValue(cpm)]
        IN  << [config |-> config_payload, state |-> state_payload,
                config_topic |-> config_topic, state_topic |-> state_topic] >>

-----------------------------------------------------------------------------
(* main.rs: the messages of the outbound channel. *)

Outbound(topic, payload) == [ipc |-> "Outbound", topic |-> topic, payload |-> payload]

ConfigMessage(p) == Outbound(p.config_topic, [tag |-> "Config", body |-> p.config])

StateMessage(p) == Outbound(p.state_topic, [tag |-> "CurrentState", body |-> p.state])

FirstSend_StateFirst(p) == StateMessage(p)

\* the message of the first send of the loop body
FirstSend(p) == ConfigMessage(p)

SecondSend_ConfigAgain(p) == ConfigMessage(p)

SecondSend_OnConfigTopic(p) ==
    Outbound(p.config_topic, [tag |-> "CurrentState", body |-> p.state])

\* the message of the second send of the loop body
SecondSend(p) == StateMessage(p)

SendBlocks_Never(q) == FALSE

\* mpsc::Sender::send waits while the buffer holds its capacity
SendBlocks(q) == Len(q) >= MPSC_BUFFER_SIZE

ChanPut_Front(q, m) == <<m>> \o q

\* a completed send puts the message at the back of the buffer
ChanPut(q, m) == Append(q, m)

RxClosed_Never == FALSE

\* the receiver half mqtt_rx lives in the session task and dies with it
RxClosed == sess = "exited"

Alive == pc /= "exited"

\* the live Sender handles of the broadcast channel: broadcast_tx stays in
\* main's scope until the process ends; bcasttx is moved into the spawned
\* task and dropped when the task ends
BroadcastSenders ==
    (IF Alive /\ sess /= "unspawned" THEN {"broadcast_tx"} ELSE {}) \cup
    (IF sess \in {"spawned", "running", "blocked"} THEN {"bcasttx"} ELSE {})

-----------------------------------------------------------------------------
(* The state at the start of main. *)

Init ==
    /\ pc = "load_config"
    /\ exitStatus = <<>>
    /\ stdout = <<>>
    /\ stderr = <<>>
    /\ conn = "none"
    /\ sess = "unspawned"
    /\ gmc = "closed"
    /\ reading = NoReading
    /\ payloads = <<>>
    /\ cycles = 0
    /\ queries = 0
    /\ chan = <<>>
    /\ sent = <<>>
    /\ sendAttempts = 0
    /\ taken = <<>>
    /\ published = <<>>
    /\ lost = <<>>
    /\ bcast = <<>>
    /\ sessRxPos = 0
    /\ outages = 0
    /\ sentInOutage = FALSE
    /\ inbound = <<>>
    /\ arrived = <<>>
    /\ pendingIn = <<>>
    /\ clock = 0
    /\ cycleBegan = 0
    /\ cycleDone = 0
    /\ yielded = 0
    /\ endedAt = <<>>
    /\ failed = 0

-----------------------------------------------------------------------------
(* main.rs: die and the start-up of main. *)

Die_Returns(msg, resume) ==
    /\ stdout' = Append(stdout, msg)
    /\ pc' = resume
    /\ UNCHANGED exitStatus

\* die(msg): print the line, end the process; resume is where the caller would
\* go on if die returned, which process::exit never does
Die(msg, resume) ==
    /\ stdout' = Append(stdout, msg)
    /\ exitStatus' = <<DieStatus>>
    /\ pc' = "exited"

\* a panic on the main thread: the message goes to standard error
Panic(msg) ==
    /\ stderr' = Append(stderr, msg)
    /\ exitStatus' = <<PanicStatus>>
    /\ pc' = "exited"

\* SETTINGS: fs::read_to_string(cfg_file)
LoadConfig ==
    /\ UNCHANGED <<inVars, timeVars, yielded, endedAt, failed>>
    /\ pc = "load_config"
    /\ \/ /\ pc' = "parse_config"
          /\ UNCHANGED <<stdout, exitStatus>>
       \/ Die("Can't read config file", "parse_config")
    /\ UNCHANGED <<stderr, conn, sess, gmc, reading, payloads, cycles, queries, chan,
                   sent, sendAttempts, taken, published, lost, bcast, sessRxPos,
                   outages, sentInOutage>>

\* SETTINGS: serde_yaml::from_str(&yaml)
ParseConfig ==
    /\ UNCHANGED <<inVars, timeVars, yielded, endedAt, failed>>
    /\ pc = "parse_config"
    /\ \/ /\ pc' = "mqtt_connect"
          /\ UNCHANGED <<stdout, exitStatus>>
       \/ Die("Couldn't deserialize AppConfig", "mqtt_connect")
    /\ UNCHANGED <<stderr, conn, sess, gmc, reading, payloads, cycles, queries, chan,
                   sent, sendAttempts, taken, published, lost, bcast, sessRxPos,
                   outages, sentInOutage>>

MqttConnect_GoesOn ==
    /\ UNCHANGED <<inVars, timeVars, yielded, endedAt, failed>>
    /\ pc = "mqtt_connect"
    /\ \/ /\ conn' = "up"
          /\ pc' = "spawn"
          /\ UNCHANGED <<stdout, exitStatus>>
       \/ /\ stdout' = Append(stdout, "Couldn't create mqtt connection object: {e}")
          /\ pc' = "spawn"
          /\ UNCHANGED <<conn, exitStatus>>
    /\ UNCHANGED <<stderr, sess, gmc, reading, payloads, cycles, queries, chan,
                   sent, sendAttempts, taken, published, lost, bcast, sessRxPos,
                   outages, sentInOutage>>

\* MqttConnection::new(...).await; on Err main returns die(...)
MqttConnect ==
    /\ UNCHANGED <<inVars, timeVars, yielded, endedAt, failed>>
    /\ pc = "mqtt_connect"
    /\ \/ /\ conn' = "up"
          /\ pc' = "spawn"
          /\ UNCHANGED <<stdout, exitStatus>>
       \/ /\ Die("Couldn't create mqtt connection object: {e}", "main_returned")
          /\ UNCHANGED conn
    /\ UNCHANGED <<stderr, sess, gmc, reading, payloads, cycles, queries, chan,
                   sent, sendAttempts, taken, published, lost, bcast, sessRxPos,
                   outages, sentInOutage>>

SpawnSession_Signals ==
    /\ pc = "spawn"
    /\ chan' = <<>>
    /\ inbound' = <<>>
    /\ bcast' = <<"shutdown">>
    /\ sess' = "spawned"
    /\ pc' = "open_gmc"
    /\ UNCHANGED <<exitStatus, stdout, stderr, conn, gmc, reading, payloads, cycles,
                   queries, sent, sendAttempts, taken, published, lost, sessRxPos,
                   outages, sentInOutage, arrived, pendingIn, timeVars, yielded,
                   endedAt, failed>>

\* the four channels are created and the session task is spawned
SpawnSession ==
    /\ UNCHANGED <<arrived, pendingIn, timeVars, yielded, endedAt, failed>>
    /\ pc = "spawn"
    /\ chan' = <<>>
    /\ inbound' = <<>>
    /\ bcast' = <<>>
    /\ sess' = "spawned"
    /\ pc' = "open_gmc"
    /\ UNCHANGED <<exitStatus, stdout, stderr, conn, gmc, reading, payloads, cycles,
                   queries, sent, sendAttempts, taken, published, lost, sessRxPos,
                   outages, sentInOutage>>

\* GMC::new("COM3", 57600).expect("Can't connect to unit.")
OpenGmc ==
    /\ UNCHANGED <<inVars, clock, cycleDone, yielded, endedAt, failed>>
    /\ pc = "open_gmc"
    /\ \/ /\ gmc' = "open"
          /\ pc' = "poll"
          /\ cycleBegan' = clock
          /\ UNCHANGED <<stderr, exitStatus>>
       \/ /\ Panic("Can't connect to unit.")
          /\ UNCHANGED <<gmc, cycleBegan>>
    /\ UNCHANGED <<stdout, conn, sess, reading, payloads, cycles, queries, chan,
                   sent, sendAttempts, taken, published, lost, bcast, sessRxPos,
                   outages, sentInOutage>>

-----------------------------------------------------------------------------
(* main.rs: the poll loop. *)

Poll_DiesOnError(R, limit) ==
    /\ pc = "poll"
    /\ cycles < limit
    /\ \E r \in R :
        /\ reading' = Observed(r)
        /\ queries' = queries + QueriesMade(r)
        /\ payloads' = generate_payloads(r, cycles + 1)
        /\ yielded' = IF generate_payloads(r, cycles + 1) = <<>> THEN yielded ELSE yielded + 1
        /\ IF generate_payloads(r, cycles + 1) = <<>>
           THEN Die("Can't read the instrument", "sleep")
           ELSE pc' = "send_config" /\ UNCHANGED <<stdout, exitStatus>>
    /\ cycles' = cycles + 1
    /\ UNCHANGED <<stderr, conn, sess, gmc, chan, sent, sendAttempts, taken,
                   published, lost, bcast, sessRxPos, outages, sentInOutage,
                   inVars, timeVars, endedAt, failed>>

\* generate_payloads(&mut gmc).await, the instrument answering from R; the
\* clock read by Utc::now() is taken to show the ordinal of the poll cycle
Poll(R, limit) ==
    /\ UNCHANGED <<inVars, clock, cycleBegan, endedAt, failed>>
    /\ pc = "poll"
    /\ cycles < limit
    /\ \E r \in R :
        /\ reading' = Observed(r)
        /\ queries' = queries + QueriesMade(r)
        /\ payloads' = generate_payloads(r, cycles + 1)
        /\ pc' = IF generate_payloads(r, cycles + 1) = <<>> THEN "sleep" ELSE "send_config"
        /\ yielded' = IF generate_payloads(r, cycles + 1) = <<>> THEN yielded ELSE yielded + 1
        /\ cycleDone' = IF generate_payloads(r, cycles + 1) = <<>> THEN clock ELSE cycleDone
    /\ cycles' = cycles + 1
    /\ UNCHANGED <<exitStatus, stdout, stderr, conn, sess, gmc, chan, sent,
                   sendAttempts, taken, published, lost, bcast, sessRxPos, outages,
                   sentInOutage>>

\* mqtt_tx.send(m).await and what follows it: at, then are the positions of
\* the send and of the statement after it
Send(at, m, then) ==
    /\ UNCHANGED <<inVars, clock, cycleBegan, yielded, endedAt, failed>>
    /\ pc = at
    /\ \/ /\ RxClosed
          /\ sendAttempts' = sendAttempts + 1
          /\ Die("channel closed", then)
          /\ UNCHANGED <<chan, sent, sentInOutage, cycleDone>>
       \/ /\ ~RxClosed
          /\ ~SendBlocks(chan)
          /\ sendAttempts' = sendAttempts + 1
          /\ chan' = ChanPut(chan, m)
          /\ sent' = Append(sent, <<cycles, m>>)
          /\ sentInOutage' = (sentInOutage \/ conn = "down")
          /\ pc' = then
          /\ cycleDone' = IF then = "sleep" THEN clock ELSE cycleDone
          /\ UNCHANGED <<stdout, exitStatus>>
    /\ UNCHANGED <<stderr, conn, sess, gmc, reading, cycles, queries, taken,
                   published, lost, bcast, sessRxPos, outages>>

\* the first send of the loop body: Payload::Config on config_topic
SendConfig ==
    /\ pc = "send_config"
    /\ Send("send_config", FirstSend(Head(payloads)), "send_state")
    /\ UNCHANGED payloads

\* the second send of the loop body: Payload::CurrentState on state_topic;
\* the for loop then moves to the next payload or ends
SendState ==
    /\ pc = "send_state"
    /\ Send("send_state", SecondSend(Head(payloads)),
            IF Tail(payloads) = <<>> THEN "sleep" ELSE "send_config")
    /\ payloads' = IF pc' = "exited" THEN payloads ELSE Tail(payloads)

SleepTime_FixedRate(elapsed) == IF elapsed >= POLL_TIME THEN 0 ELSE POLL_TIME - elapsed

\* the time the thread sleeps after an iteration that took elapsed seconds
SleepTime(elapsed) == POLL_TIME

\* sleep(Duration::from_secs(POLL_TIME)), then the next iteration: the main
\* thread is blocked while the time passes
Sleep ==
    /\ pc = "sleep"
    /\ pc' = "poll"
    /\ reading' = NoReading
    /\ clock' = clock + SleepTime(cycleDone - cycleBegan)
    /\ cycleBegan' = clock + SleepTime(cycleDone - cycleBegan)
    /\ UNCHANGED <<inVars, cycleDone, yielded, endedAt, failed>>
    /\ UNCHANGED <<exitStatus, stdout, stderr, conn, sess, gmc, payloads,
                   cycles, queries, chan, sent, sendAttempts, taken, published, lost,
                   bcast, sessRxPos, outages, sentInOutage>>

-----------------------------------------------------------------------------
(* The MQTT session task: spawned in main.rs, its body (mqtt_poll_loop) as  *)
(* the specification describes it.                                          *)

\* the spawned task is polled for the first time: the arguments of
\* mqtt_poll_loop are evaluated, bcasttx.clone().subscribe() among them; a
\* broadcast receiver sees the messages sent after it subscribed
SessionStart ==
    /\ UNCHANGED <<inVars, timeVars, yielded, endedAt, failed>>
    /\ Alive
    /\ sess = "spawned"
    /\ sess' = "running"
    /\ sessRxPos' = Len(bcast)
    /\ UNCHANGED <<pc, exitStatus, stdout, stderr, conn, gmc, reading, payloads,
                   cycles, queries, chan, sent, sendAttempts, taken, published,
                   lost, bcast, outages, sentInOutage>>

\* the task returns: mqtt_rx is dropped, which closes the channel and frees
\* the messages still in its buffer
SessionEnds ==
    /\ sess' = "exited"
    /\ endedAt' = <<cycles>>
    /\ lost' = lost \o chan
    /\ chan' = <<>>

\* a second passes while the main task is in the driver queries or in a send
TimePasses ==
    /\ pc \in {"poll", "send_config", "send_state"}
    /\ clock - cycleBegan < MaxCycleTime
    /\ clock' = clock + 1
    /\ UNCHANGED <<pc, exitStatus, stdout, stderr, conn, sess, gmc, reading,
                   payloads, cycles, queries, chan, sent, sendAttempts, taken,
                   published, lost, bcast, sessRxPos, outages, sentInOutage,
                   inVars, cycleBegan, cycleDone, yielded, endedAt, failed>>

\* a message is dequeued and published to the broker
SessionPublish ==
    /\ UNCHANGED <<inVars, timeVars, yielded, endedAt, failed>>
    /\ Alive
    /\ sess = "running"
    /\ conn = "up"
    /\ chan /= <<>>
    /\ taken' = Append(taken, Head(chan))
    /\ published' = Append(published, Head(chan))
    /\ chan' = Tail(chan)
    /\ UNCHANGED <<pc, exitStatus, stdout, stderr, conn, sess, gmc, reading,
                   payloads, cycles, queries, sent, sendAttempts, lost, bcast,
                   sessRxPos, outages, sentInOutage>>

SessionPublishFails_EndsTask ==
    /\ Alive
    /\ sess = "running"
    /\ conn = "up"
    /\ chan /= <<>>
    /\ taken' = Append(taken, Head(chan))
    /\ failed' = failed + 1
    /\ sess' = "exited"
    /\ endedAt' = <<cycles>>
    /\ lost' = lost \o Tail(chan)
    /\ chan' = <<>>
    /\ UNCHANGED <<pc, exitStatus, stdout, stderr, conn, gmc, reading,
                   payloads, cycles, queries, sent, sendAttempts, published,
                   bcast, sessRxPos, outages, sentInOutage, inVars, timeVars,
                   yielded>>

\* a publish call fails for a reason other than disconnection: the message is
\* logged and dropped, the task goes on
SessionPublishFails ==
    /\ UNCHANGED <<inVars, timeVars, yielded, endedAt>>
    /\ Alive
    /\ sess = "running"
    /\ conn = "up"
    /\ chan /= <<>>
    /\ taken' = Append(taken, Head(chan))
    /\ chan' = Tail(chan)
    /\ failed' = failed + 1
    /\ UNCHANGED <<pc, exitStatus, stdout, stderr, conn, sess, gmc, reading,
                   payloads, cycles, queries, sent, sendAttempts, published, lost,
                   bcast, sessRxPos, outages, sentInOutage>>

\* the transport drops the connection
TransportDisconnect ==
    /\ UNCHANGED <<inVars, timeVars, yielded, endedAt, failed>>
    /\ Alive
    /\ conn = "up"
    /\ outages < MaxOutages
    /\ conn' = "down"
    /\ outages' = outages + 1
    /\ UNCHANGED <<pc, exitStatus, stdout, stderr, sess, gmc, reading, payloads,
                   cycles, queries, chan, sent, sendAttempts, taken, published,
                   lost, bcast, sessRxPos, sentInOutage>>

SessionReconnect_CleanSession ==
    /\ UNCHANGED <<inVars, timeVars, yielded, endedAt, failed>>
    /\ Alive
    /\ sess = "running"
    /\ conn = "down"
    /\ conn' = "up"
    /\ chan' = <<>>
    /\ UNCHANGED <<pc, exitStatus, stdout, stderr, sess, gmc, reading, payloads,
                   cycles, queries, sent, sendAttempts, taken, published,
                   lost, bcast, sessRxPos, outages, sentInOutage>>

\* the task reconnects with the parameters of its construction and resumes
SessionReconnect ==
    /\ UNCHANGED <<inVars, timeVars, yielded, endedAt, failed>>
    /\ Alive
    /\ sess = "running"
    /\ conn = "down"
    /\ conn' = "up"
    /\ UNCHANGED <<pc, exitStatus, stdout, stderr, sess, gmc, reading, payloads,
                   cycles, queries, chan, sent, sendAttempts, taken, published,
                   lost, bcast, sessRxPos, outages, sentInOutage>>

\* an unrecoverable error: mqtt_poll_loop returns
SessionFails ==
    /\ UNCHANGED <<inVars, timeVars, yielded, failed>>
    /\ Alive
    /\ sess = "running"
    /\ SessionEnds
    /\ UNCHANGED <<pc, exitStatus, stdout, stderr, conn, gmc, reading, payloads,
                   cycles, queries, sent, sendAttempts, taken, published, bcast,
                   sessRxPos, outages, sentInOutage>>

\* the task receives a message of the control channel: it closes the
\* connection and returns
SessionShutdown ==
    /\ UNCHANGED <<inVars, timeVars, yielded, failed>>
    /\ Alive
    /\ sess = "running"
    /\ sessRxPos < Len(bcast)
    /\ sessRxPos' = sessRxPos + 1
    /\ conn' = "none"
    /\ SessionEnds
    /\ UNCHANGED <<pc, exitStatus, stdout, stderr, gmc, reading, payloads, cycles,
                   queries, sent, sendAttempts, taken, published, bcast, outages,
                   sentInOutage>>

\* a holder of broadcast_tx sends the shutdown signal, once
ControlSend ==
    /\ UNCHANGED <<inVars, timeVars, yielded, endedAt, failed>>
    /\ Alive
    /\ sess /= "unspawned"
    /\ bcast = <<>>
    /\ bcast' = Append(bcast, "shutdown")
    /\ UNCHANGED <<pc, exitStatus, stdout, stderr, conn, sess, gmc, reading,
                   payloads, cycles, queries, chan, sent, sendAttempts, taken,
                   published, lost, sessRxPos, outages, sentInOutage>>

\* the n-th message the broker delivers to the client
InboundMessage(n) == [ipc |-> "Inbound", topic |-> "gqgmcmqtt/inbound", n |-> n]

InboundFull_Never(q) == FALSE

\* from_mqtt_tx.send(m).await waits while the inbound channel holds
\* MPSC_BUFFER_SIZE messages
InboundFull(q) == Len(q) >= MPSC_BUFFER_SIZE

\* the transport delivers a message and the task relays it to the inbound
\* channel
InboundRelay ==
    /\ Alive
    /\ sess = "running"
    /\ conn = "up"
    /\ Len(arrived) < InboundMessages
    /\ ~InboundFull(inbound)
    /\ arrived' = Append(arrived, InboundMessage(Len(arrived) + 1))
    /\ inbound' = Append(inbound, InboundMessage(Len(arrived) + 1))
    /\ UNCHANGED <<pc, exitStatus, stdout, stderr, conn, sess, gmc, reading,
                   payloads, cycles, queries, chan, sent, sendAttempts, taken,
                   published, lost, bcast, sessRxPos, outages, sentInOutage,
                   pendingIn, timeVars, yielded, endedAt, failed>>

\* the transport delivers a message while the inbound channel is full: the
\* task waits in the relay with the message, and with it the transport read
\* loop; nothing receives from from_mqtt_rx
InboundRelayWaits ==
    /\ Alive
    /\ sess = "running"
    /\ conn = "up"
    /\ Len(arrived) < InboundMessages
    /\ InboundFull(inbound)
    /\ arrived' = Append(arrived, InboundMessage(Len(arrived) + 1))
    /\ pendingIn' = <<InboundMessage(Len(arrived) + 1)>>
    /\ sess' = "blocked"
    /\ UNCHANGED <<pc, exitStatus, stdout, stderr, conn, gmc, reading,
                   payloads, cycles, queries, chan, sent, sendAttempts, taken,
                   published, lost, bcast, sessRxPos, outages, sentInOutage,
                   inbound, timeVars, yielded, endedAt, failed>>

-----------------------------------------------------------------------------
(* Specifications. *)

Startup == LoadConfig \/ ParseConfig \/ MqttConnect \/ SpawnSession \/ OpenGmc

\* the program as it is: nothing sends on the control channel
Next ==
    \/ Startup
    \/ Poll(Readings, MaxCycles)
    \/ SendConfig
    \/ SendState
    \/ Sleep
    \/ SessionStart
    \/ SessionPublish
    \/ SessionPublishFails
    \/ TransportDisconnect
    \/ SessionReconnect
    \/ SessionFails

Spec == Init /\ [][Next]_vars

\* the orchestrator alone, over a wider range of instrument answers
NextBuilder ==
    \/ Startup
    \/ Poll(BuilderReadings, BuilderCycles)
    \/ SendConfig
    \/ SendState
    \/ Sleep
    \/ SessionStart

SpecBuilder == Init /\ [][NextBuilder]_vars

\* an instrument that always answers, long enough to fill the outbound channel
NextFlood ==
    \/ Startup
    \/ Poll(FloodReadings, FloodCycles)
    \/ SendConfig
    \/ SendState
    \/ Sleep
    \/ SessionStart
    \/ SessionPublish
    \/ SessionFails

SpecFlood == Init /\ [][NextFlood]_vars

\* the program with a holder of broadcast_tx that sends the shutdown signal
NextCtl ==
    \/ Next
    \/ ControlSend
    \/ SessionShutdown

SpecCtl == Init /\ [][NextCtl]_vars

\* the program over a transport that drops and comes back, the session task
\* staying up: the runtime keeps scheduling the task while it has work
NextReconnect ==
    \/ Startup
    \/ Poll(Readings, MaxCycles)
    \/ SendConfig
    \/ SendState
    \/ Sleep
    \/ SessionStart
    \/ SessionPublish
    \/ TransportDisconnect
    \/ SessionReconnect

SpecReconnect ==
    /\ Init
    /\ [][NextReconnect]_vars
    /\ WF_vars(SessionStart)
    /\ WF_vars(SessionPublish)
    /\ WF_vars(SessionReconnect)

\* the program with a broker that delivers inbound messages
NextInbound ==
    \/ Startup
    \/ Poll(FloodReadings, InboundCycles)
    \/ SendConfig
    \/ SendState
    \/ Sleep
    \/ SessionStart
    \/ SessionPublish
    \/ InboundRelay
    \/ InboundRelayWaits

SpecInbound ==
    /\ Init
    /\ [][NextInbound]_vars
    /\ WF_vars(SessionStart)
    /\ WF_vars(SessionPublish)

\* the program with the time its poll cycles take
NextTime ==
    \/ Startup
    \/ Poll(Readings, MaxCycles)
    \/ SendConfig
    \/ SendState
    \/ Sleep
    \/ SessionStart
    \/ SessionPublish
    \/ TimePasses

SpecTime == Init /\ [][NextTime]_vars

-----------------------------------------------------------------------------
(* Properties. *)

\* the messages of a send history
Msgs(h) == [i \in 1..Len(h) |-> h[i][2]]

IsPrefix(a, b) == Len(a) <= Len(b) /\ SubSeq(b, 1, Len(a)) = a

\* a is b with some elements left out
RECURSIVE IsSubseq(_, _)
IsSubseq(a, b) ==
    IF a = <<>> THEN TRUE
    ELSE IF b = <<>> THEN FALSE
    ELSE IF Head(a) = Head(b) THEN IsSubseq(Tail(a), Tail(b))
    ELSE IsSubseq(a, Tail(b))

Sending == pc \in {"send_config", "send_state"}

\* C1: every state (CurrentState) message ever enqueued comes right after the
\* discovery (Config) message of the same poll cycle, and while the state send
\* of a cycle is pending that cycle's discovery message is already enqueued.
C1_DiscoveryBeforeState ==
    /\ \A i \in 1..Len(sent) :
          sent[i][2].payload.tag = "CurrentState" =>
              /\ i > 1
              /\ sent[i - 1][2].payload.tag = "Config"
              /\ sent[i - 1][1] = sent[i][1]
    /\ pc = "send_state" =>
          /\ sent /= <<>>
          /\ sent[Len(sent)] = <<cycles, ConfigMessage(Head(payloads))>>

C1_Witness ==
    /\ Len(sent) >= 2
    /\ sent[1][2].payload.tag = "Config"
    /\ sent[2][2].payload.tag = "CurrentState"

\* C2 as claimed: the messages the broker received are at every moment a
\* prefix of the messages the orchestrator sent.
C2_PublishedIsPrefixOfSent == IsPrefix(published, Msgs(sent))

\* C2, amended: the messages the session task dequeued and passed to a publish
\* call are at every moment a prefix of the messages the orchestrator sent, in
\* send order, and the messages the broker received are those in the same
\* order, without the ones whose publish call failed.
C2_DequeuedIsPrefixOfSent ==
    /\ IsPrefix(taken, Msgs(sent))
    /\ IsSubseq(published, taken)

C2_Witness ==
    /\ Len(taken) >= 3
    /\ Len(published) >= 2
    /\ Len(published) < Len(taken)
    /\ published[Len(published)] = taken[Len(taken)]

\* C3 as claimed: the outbound channel never holds more than MPSC_BUFFER_SIZE
\* messages, the orchestrator leaves a send on a full channel only when the
\* session task has made room, and every message whose send completed is still
\* in the channel or has been dequeued by the session task.
C3_NeverDropsAMessage ==
    /\ Len(chan) <= MPSC_BUFFER_SIZE
    /\ Msgs(sent) = taken \o chan

\* C3, amended: the outbound channel never holds more than MPSC_BUFFER_SIZE
\* messages; a send attempted while it is full completes only after the
\* session task has dequeued, and fails only when the session task has ended;
\* as long as the session task has not ended, every message whose send
\* completed is still in the channel or has been dequeued by the session task;
\* when the session task ends, the messages still in the channel are freed
\* with it.
C3_NeverDropsWhileSessionLives ==
    /\ [](/\ Len(chan) <= MPSC_BUFFER_SIZE
          /\ sess /= "exited" => Msgs(sent) = taken \o chan
          /\ Msgs(sent) = taken \o lost \o chan)
    /\ [][/\ (Sending /\ Len(chan) = MPSC_BUFFER_SIZE) =>
                \/ pc' = pc /\ sent' = sent /\ sendAttempts' = sendAttempts
                \/ RxClosed /\ pc' = "exited" /\ sent' = sent
          /\ sent' /= sent =>
                /\ Len(chan) < MPSC_BUFFER_SIZE
                /\ chan' = Append(chan, sent'[Len(sent')][2])]_vars

C3_Witness ==
    /\ Sending
    /\ ~RxClosed
    /\ Len(chan) = MPSC_BUFFER_SIZE
    /\ Len(sent) = MPSC_BUFFER_SIZE + Len(taken)
    /\ taken /= <<>>

C6_ClosedChannelIsFatal ==
    [][/\ (Sending /\ RxClosed /\ pc' /= pc) =>
              /\ pc' = "exited"
              /\ exitStatus' = <<DieStatus>>
              /\ sendAttempts' = sendAttempts + 1
              /\ UNCHANGED <<sent, chan, queries, cycles>>
       /\ pc = "exited" =>
              UNCHANGED <<pc, exitStatus, sendAttempts, sent, chan, queries, cycles>>]_vars

\* the discovery send of a later cycle failed: its state send was never tried
C6_Witness ==
    /\ pc = "exited"
    /\ RxClosed
    /\ exitStatus = <<DieStatus>>
    /\ payloads /= <<>>
    /\ sendAttempts = Len(sent) + 1
    /\ sent /= <<>>
    /\ sent[Len(sent)][2].payload.tag = "CurrentState"

\* C7: whenever the process has ended, its exit status is 1 and a diagnostic
\* line has been printed to standard output.
C7_FatalExitStatusIsOne ==
    pc = "exited" => (exitStatus = <<DieStatus>> /\ stdout /= <<>>)

ReadingFailed(r) ==
    \/ ~r.version.ok
    \/ ~r.serial.ok
    \/ ~r.cpm.ok
    \/ r.cpm.v = 0

\* C8: a poll cycle in which a driver query fails or the count is 0 yields no
\* payload and goes straight to the sleep: it attempts no send and leaves the
\* outbound channel as it was; a send is only ever pending after a reading
\* with three answers and a count above 0.
C8_FailedReadingSendsNothing ==
    /\ [](Sending => ~ReadingFailed(reading))
    /\ [][(pc = "poll" /\ pc' /= "poll" /\ ReadingFailed(reading')) =>
              /\ payloads' = <<>>
              /\ pc' = "sleep"
              /\ UNCHANGED <<chan, sent, sendAttempts>>]_vars

C8_Witness ==
    /\ pc = "sleep"
    /\ reading.version.ok
    /\ reading.serial.ok
    /\ reading.cpm = Ok(0)
    /\ sent /= <<>>

\* C9: when the three queries succeed with a count above 0, generate_payloads
\* returns exactly one CompoundPayload; its state value is the integer count
\* read, its discovery topic is homeassistant/sensor/{serial}/geiger_counter_cpm/config
\* and its state topic is gqgmcmqtt/{serial}/geiger_counter_cpm.
C9_OnePayloadPerGoodReading ==
    [][(pc = "poll" /\ pc' /= "poll" /\ ~ReadingFailed(reading')) =>
          /\ Len(payloads') = 1
          /\ payloads'[1].state.value = [tag |-> "Int", v |-> reading'.cpm.v]
          /\ payloads'[1].config_topic =
                "homeassistant/sensor/" \o reading'.serial.v \o "/geiger_counter_cpm/config"
          /\ payloads'[1].state_topic =
                "gqgmcmqtt/" \o reading'.serial.v \o "/geiger_counter_cpm"]_vars

C9_Witness ==
    /\ pc = "send_config"
    /\ reading.version = Ok("GMC-320")
    /\ reading.serial = Ok("F4880A")
    /\ reading.cpm = Ok(7)
    /\ Len(payloads) = 1

MqttConnectFailed ==
    \E i \in 1..Len(stdout) : stdout[i] = "Couldn't create mqtt connection object: {e}"

\* C10: when the initial MQTT connection cannot be made, the process has ended
\* with the session task never spawned, the instrument never opened or
\* queried, and nothing sent on the outbound channel.
C10_NoRunWithoutMqtt ==
    MqttConnectFailed =>
        /\ pc = "exited"
        /\ exitStatus = <<DieStatus>>
        /\ sess = "unspawned"
        /\ gmc = "closed"
        /\ queries = 0
        /\ cycles = 0
        /\ sendAttempts = 0
        /\ sent = <<>>

C10_Witness == MqttConnectFailed /\ pc = "exited" /\ conn = "none"

\* C11: a publish call that fails for a reason other than disconnection costs
\* that one message and nothing else: in the step of the failure the session
\* task stays running, the outbound channel stays open and keeps every other
\* message, in order; the messages the broker received are at every moment
\* the dequeued ones without the failed ones, in send order, and publishing
\* goes on with the message at the head of the channel.
C11_FailedPublishDropsOneMessage ==
    /\ [](/\ Len(taken) = Len(published) + failed
          /\ IsSubseq(published, taken)
          /\ IsPrefix(taken, Msgs(sent)))
    /\ [][/\ failed' /= failed =>
                /\ failed' = failed + 1
                /\ sess = "running" /\ sess' = "running"
                /\ ~RxClosed'
                /\ pc' = pc /\ exitStatus' = exitStatus
                /\ chan /= <<>> /\ chan' = Tail(chan)
                /\ lost' = lost
                /\ published' = published
          /\ published' /= published =>
                /\ chan /= <<>>
                /\ published' = Append(published, Head(chan))]_vars

C11_Witness ==
    /\ failed = 1
    /\ sess = "running"
    /\ Len(taken) = 2
    /\ published = <<taken[2]>>
    /\ taken[1] /= taken[2]

\* C12: the relay puts every message the broker delivers on the inbound
\* channel in delivery order and drops none: the delivered messages are at
\* every moment those in the inbound channel followed by the one the task
\* waits with; the channel never holds more than MPSC_BUFFER_SIZE messages; a
\* message delivered while it is full is kept and the task waits with it,
\* reading nothing more from the transport and from the outbound channel.
C12_RelayKeepsEveryMessage ==
    /\ [](/\ Len(inbound) <= MPSC_BUFFER_SIZE
          /\ arrived = inbound \o pendingIn
          /\ \A i \in 1..Len(arrived) : arrived[i] = InboundMessage(i)
          /\ pendingIn /= <<>> <=> sess = "blocked"
          /\ sess = "blocked" => Len(inbound) = MPSC_BUFFER_SIZE)
    /\ [][/\ arrived' /= arrived =>
                \/ /\ Len(inbound) < MPSC_BUFFER_SIZE
                   /\ inbound' = Append(inbound, arrived'[Len(arrived')])
                   /\ sess' = "running"
                \/ /\ Len(inbound) = MPSC_BUFFER_SIZE
                   /\ inbound' = inbound
                   /\ sess' = "blocked"
          /\ sess = "blocked" =>
                /\ sess' = "blocked"
                /\ arrived' = arrived
                /\ inbound' = inbound
                /\ pendingIn' = pendingIn
                /\ taken' = taken]_vars

C12_Witness ==
    /\ sess = "blocked"
    /\ Len(inbound) = MPSC_BUFFER_SIZE
    /\ pendingIn = <<InboundMessage(MPSC_BUFFER_SIZE + 1)>>

\* C13: a failed driver query or a count of zero never stops the poll loop: the
\* cycle ends after the queries made so far, each made once, with the process
\* running and the orchestrator at the sleep; from the sleep the orchestrator
\* goes nowhere but to the next cycle, POLL_TIME later, and that cycle starts
\* again at the first driver query.
C13_FailedCycleKeepsPolling ==
    /\ []((pc = "sleep" /\ ReadingFailed(reading)) => exitStatus = <<>>)
    /\ [][/\ (pc = "poll" /\ pc' /= pc /\ ReadingFailed(reading')) =>
                /\ pc' = "sleep"
                /\ exitStatus' = <<>>
                /\ stdout' = stdout
                /\ queries' - queries = QueriesMade(reading')
                /\ queries' - queries \in 1..3
                /\ cycles' = cycles + 1
          /\ (pc = "sleep" /\ pc' /= pc) =>
                /\ pc' = "poll"
                /\ exitStatus' = <<>>
                /\ clock' = clock + POLL_TIME
                /\ queries' = queries
          /\ (pc = "poll" /\ pc' /= pc) =>
                /\ reading'.version /= NotAsked
                /\ queries' > queries]_vars

C13_Witness ==
    /\ cycles = 2
    /\ yielded = 1
    /\ sent = <<>>
    /\ pc = "send_config"
    /\ clock = POLL_TIME

\* C14 as claimed: after a poll cycle that took longer than POLL_TIME the next
\* cycle starts at the moment the previous one completed, with no further
\* wait.
C14_LongCycleStartsNextAtOnce ==
    [][(pc = "sleep" /\ pc' = "poll" /\ cycleDone - cycleBegan > POLL_TIME) =>
            cycleBegan' = cycleDone]_vars

\* C14, amended: the loop does not compensate for drift: after every poll
\* cycle, whatever time it took, and also when it took longer than POLL_TIME,
\* the orchestrator sleeps the whole POLL_TIME, so the next cycle starts
\* POLL_TIME after the previous one completed.
C14_NextCycleStartsPollTimeLater ==
    [][(pc = "sleep" /\ pc' = "poll") =>
            /\ clock = cycleDone
            /\ clock' = cycleDone + POLL_TIME
            /\ cycleBegan' = cycleDone + POLL_TIME]_vars

C14_Witness ==
    /\ pc = "poll"
    /\ cycles = 1
    /\ cycleDone > POLL_TIME
    /\ cycleBegan = cycleDone + POLL_TIME
    /\ clock = cycleBegan

\* what C15 allows on the outbound channel
IsConfigOrIntState(m) ==
    /\ m.ipc = "Outbound"
    /\ m.payload.tag \in {"Config", "CurrentState"}
    /\ m.payload.tag = "CurrentState" =>
            /\ m.payload.body.value.tag = "Int"
            /\ m.payload.body.value.v \in Int

\* C15: every message in the outbound channel, and every message ever put on
\* it, is an IPCMessage::Outbound whose payload is a Config or a CurrentState
\* with an Int value; no Payload::None, no PayloadValueType::None and no error
\* value is enqueued.
C15_OnlyConfigAndIntState ==
    /\ \A i \in 1..Len(chan) : IsConfigOrIntState(chan[i])
    /\ \A i \in 1..Len(sent) : IsConfigOrIntState(sent[i][2])
    /\ \A i \in 1..Len(payloads) : payloads[i].state.value.tag = "Int"

C15_Witness ==
    /\ Len(chan) = 2
    /\ chan[1].payload.tag = "Config"
    /\ chan[2].payload.tag = "CurrentState"
    /\ chan[2].payload.body.value = IntValue(42)

\* C16: at the end of every poll cycle the orchestrator has completed exactly
\* two sends for each cycle that produced a payload and none for the others,
\* every attempted send has completed, and the messages ever enqueued
\* alternate strictly: discovery, state, discovery, state, each pair stamped
\* by one cycle.
C16_TwoSendsPerProductiveCycle ==
    /\ pc \in {"poll", "sleep"} =>
            /\ Len(sent) = 2 * yielded
            /\ sendAttempts = Len(sent)
    /\ pc = "send_config" => Len(sent) = 2 * yielded - 2
    /\ pc = "send_state" => Len(sent) = 2 * yielded - 1
    /\ yielded <= cycles
    /\ \A i \in 1..Len(sent) :
            /\ sent[i][2].payload.tag = IF i % 2 = 1 THEN "Config" ELSE "CurrentState"
            /\ i % 2 = 0 => sent[i][1] = sent[i - 1][1]

C16_Witness ==
    /\ pc = "sleep"
    /\ cycles = 2
    /\ yielded = 1
    /\ Len(sent) = 2
    /\ ~RxClosed

\* C17: the orchestrator learns that the session task has ended only from a
\* failed send. The step in which the task ends moves and tells the
\* orchestrator nothing; once the task has ended no send completes; the next
\* send attempted ends the process with status 1; a poll cycle that yields no
\* payload attempts no send and leaves the process running, and so does the
\* sleep after it.
C17_SessionExitSeenOnlyBySend ==
    /\ []((pc = "exited" /\ Len(stdout) > 0 /\ stdout[Len(stdout)] = "channel closed") =>
            /\ sess = "exited"
            /\ exitStatus = <<DieStatus>>)
    /\ [][/\ (sess /= "exited" /\ sess' = "exited") =>
                /\ pc' = pc
                /\ exitStatus' = exitStatus
                /\ stdout' = stdout
                /\ stderr' = stderr
          /\ sess = "exited" =>
                /\ sent' = sent
                /\ chan' = chan
          /\ (sess = "exited" /\ Sending /\ pc' /= pc) =>
                /\ pc' = "exited"
                /\ exitStatus' = <<DieStatus>>
                /\ sendAttempts' = sendAttempts + 1
          /\ (sess = "exited" /\ pc = "poll" /\ pc' /= pc) =>
                /\ exitStatus' = <<>>
                /\ sendAttempts' = sendAttempts
                /\ pc' = IF payloads' = <<>> THEN "sleep" ELSE "send_config"
          /\ (sess = "exited" /\ pc = "sleep" /\ pc' /= pc) =>
                /\ exitStatus' = <<>>
                /\ pc' = "poll"]_vars

C17_Witness ==
    /\ endedAt = <<0>>
    /\ cycles = 2
    /\ yielded = 1
    /\ sent = <<>>
    /\ pc = "exited"
    /\ exitStatus = <<DieStatus>>

\* C18: the program never cancels the session task: no step sends on the
\* broadcast channel, and while the main loop runs the channel holds no
\* message, main's sender broadcast_tx is alive and a session task that has
\* not ended holds its own sender, so the task's receiver has nothing to
\* receive and never finds the channel closed.
C18_NeverCancels ==
    /\ [](pc \in {"poll", "send_config", "send_state", "sleep"} =>
            /\ bcast = <<>>
            /\ "broadcast_tx" \in BroadcastSenders
            /\ sess /= "exited" => BroadcastSenders = {"broadcast_tx", "bcasttx"}
            /\ sess = "running" => sessRxPos = Len(bcast))
    /\ [][bcast' = bcast]_vars

C18_Witness ==
    /\ pc = "sleep"
    /\ cycles = 2
    /\ sess = "running"
    /\ published /= <<>>
    /\ bcast = <<>>
    /\ BroadcastSenders = {"broadcast_tx", "bcasttx"}

\* C19: inbound traffic never stops outbound publishing: with the broker
\* connected and whatever number of inbound messages it delivers, every
\* message the orchestrator has enqueued on the outbound channel is eventually
\* dequeued and published.
C19_OutboundAlwaysPublished ==
    \A n \in 1..(2 * InboundCycles) :
        [](Len(sent) >= n => <>(Len(published) >= n))

\* C20: in every CompoundPayload the state_topic written into the discovery
\* payload is the payload's state_topic, and every state message is enqueued
\* on the topic which the discovery message of the same cycle, enqueued just
\* before it, announces as its state_topic.
C20_StateTopicIsTheAnnouncedOne ==
    /\ \A i \in 1..Len(payloads) :
            payloads[i].config.state_topic = payloads[i].state_topic
    /\ \A i \in 1..Len(sent) :
            sent[i][2].payload.tag = "CurrentState" =>
                /\ i > 1
                /\ sent[i - 1][2].payload.tag = "Config"
                /\ sent[i - 1][1] = sent[i][1]
                /\ sent[i - 1][2].payload.body.state_topic = sent[i][2].topic

C20_Witness ==
    /\ Len(sent) = 4
    /\ sent[3][2].payload.body.state_topic = "gqgmcmqtt/F4880A/geiger_counter_cpm"
    /\ sent[4][2].topic = "gqgmcmqtt/F4880A/geiger_counter_cpm"
    /\ sent[2][2].topic /= sent[4][2].topic

====
